---- MODULE Spec2Model ----
(***************************************************************************)
(* Model of the kmod-cli component installer (bin/index.js): the manifest   *)
(* lookup, the non-overwriting copy into <cwd>/src/custom, the collection   *)
(* of missing dependencies against the consumer's package.json, the         *)
(* confirmation prompt and the package-manager calls; and of the manifest    *)
(* builder that scans the template tree and writes components.json.         *)
(***************************************************************************)
EXTENDS Integers, Sequences, FiniteSets, TLC

\* ------------------------------------------------------------------ bounds
\* Longest argument list of `add [components...]` that is explored.
MaxArgs == 2

\* ---------------------------------------------------------------- universe
\* Component names a manifest may hold, in the key order of components.json.
KeyOrder == <<"A", "B">>

\* Property names every plain JavaScript object inherits from Object.prototype
\* (componentsConfig and `installed` are plain objects: JSON.parse / a literal).
ObjectPrototypeKeys == {"toString"}

\* The value of the virtual checklist entry "All".
AllChoice == "--all"

\* Words a user may type after `add`: component names, a name no manifest holds,
\* an inherited property name, and the `--all` the README documents.
ArgNames == {"A", "B", "zzz"} \cup ObjectPrototypeKeys \cup {AllChoice}

\* Lockfiles detectPackageManager looks at, and the others a project may hold.
Lockfiles == {"pnpm-lock.yaml", "yarn.lock"}

\* Segments of rootDir (the installed package) and of process.cwd().
rootDir == <<"pkg">>
cwd == <<"project">>

\* What the template files of the package contain.
TemplateFiles ==
  (<<"pkg", "component-templates", "components", "A.tsx">> :> "template A") @@
  (<<"pkg", "component-templates", "components", "table", "B.tsx">> :> "template B")

Entry(p, deps, devDeps) ==
  [path |-> p, dependencies |-> deps, devDependencies |-> devDeps]

PathA == <<"component-templates", "components", "A.tsx">>
PathB == <<"component-templates", "components", "table", "B.tsx">>

\* The contents components.json may have when the CLI starts.
Manifests ==
  { [A |-> Entry(PathA, <<"x">>, <<>>), B |-> Entry(PathB, <<"x", "y">>, <<>>)],
    [A |-> Entry(PathA, <<"x">>, <<"t">>), B |-> Entry(PathB, <<"y", "x">>, <<"t", "x">>)],
    [B |-> Entry(PathB, <<>>, <<>>)] }

NoDeps == [n \in {} |-> ""]

PackageJson(deps, devDeps) ==
  [exists |-> TRUE, dependencies |-> deps, devDependencies |-> devDeps]

\* No package.json in the working directory.
NoPackageJson == [exists |-> FALSE, dependencies |-> NoDeps, devDependencies |-> NoDeps]

\* The consumer package manifests the CLI may find. A version range is a string;
\* the empty string is a valid range (it means "*").
PackageJsons ==
  { NoPackageJson,
    PackageJson(NoDeps, NoDeps),
    PackageJson([n \in {"x"} |-> "^1.0.0"], NoDeps),
    PackageJson([n \in {"x"} |-> ""], NoDeps),
    PackageJson(NoDeps, [n \in {"x"} |-> "^1.0.0"]),
    PackageJson([n \in {"x", "y"} |-> "^1.0.0"], [n \in {"t"} |-> "^1.0.0"]) }

VARIABLES
  manifestFile,     \* content of <rootDir>/components.json
  fs,               \* consumer files: destination path -> content ("absent" if none)
  pkgJson,          \* <cwd>/package.json
  lockfiles,        \* lockfiles present in <cwd>
  componentsConfig, \* the manifest as loaded at startup (index.js:15)
  fn,               \* the command function running: addComponents or addComponentsByName
  pc,               \* position of the CLI process inside it
  argv,             \* the words given after `add` on the command line
  targets,          \* names the copy loop iterates over
  next,             \* index into targets of the oldest copyComponent call not yet settled
  inFlight,         \* copyComponent calls started and not yet settled
  selected,         \* answers.selected of the checklist prompt
  collectedDeps,    \* { deps, devDeps } accumulated by copyComponent
  copyCalls,        \* names of the copyComponent calls that have settled, in order
  pkgReads,         \* for each getUserPackageJson call, the number of calls settled by then
  copied,           \* names whose copy was reported ("Copied to ...")
  warnings,         \* names reported as "Component not found"
  shown,            \* the lists displayed under "Missing packages detected"
  confirm,          \* answer to "Install all missing packages now?"
  installs,         \* package-manager commands run by execSync, in order
  error,            \* the error that ended the invocation, "none" if none
  host,             \* path convention of the machine the builder runs on
  tree,             \* the template directory the builder scans
  bpc,              \* position of the builder process
  results,          \* the mapping scanTemplates returned
  extractCalls,     \* the extractDepsFromFile calls made: file content and result
  rerun,            \* what the builder run follows: nothing, or a run on this tree
  \* hooks/safe-action.ts, one component that uses useSafeAction
  loading,          \* the `loading` option of the latest render
  preventDoubleCall, \* the `preventDoubleCall` option of the latest render
  isHandling,       \* isHandling.current
  running,          \* executions of the wrapped action that have not settled
  wrappedFns,       \* the `wrapped` closures made so far: the options each captured
  lastCall,         \* the latest call of a returned function and what it did
  everDisabled,     \* a render had preventDoubleCall false
  \* hooks/spam-guard.ts, one component that uses useSpamGuard
  limit,            \* the `limit` option
  timeFrame,        \* the `timeFrame` option
  now,              \* Date.now()
  actionsRef,       \* actionsRef.current
  passed,           \* timestamps of the calls that returned true
  lastCheck,        \* the latest checkSpam call and what it did
  \* hooks/count-down.ts, the countdown store
  timeLeft,         \* timeLeft, counted in halves of a unit
  isRunning,
  freezing,
  \* providers/rbac.tsx, one canAccess call on a memory store
  store,            \* the data given to createMemoryRBACStore
  user,             \* user.roles
  query,            \* the action and the resource asked for
  rpc,              \* position of the canAccess call
  permissionId,     \* what store.getPermissionId returned
  visited,          \* the `visited` set, in insertion order
  stack,            \* pending collect() calls: the inherits each has still to walk
  todo,             \* the user.roles the outer loop has still to collect
  lookups,          \* role id -> number of getRoles([id]) calls made by collect
  policies,         \* what store.getPolicies(permissionId) returned
  returned          \* what canAccess returned

persistent == <<manifestFile, fs, pkgJson, lockfiles>>
process == <<componentsConfig, fn, pc, argv, targets, next, inFlight, selected, collectedDeps>>
process_but_pc == <<componentsConfig, fn, argv, targets, next, inFlight, selected, collectedDeps>>
process_but_pc_deps == <<componentsConfig, fn, argv, targets, next, inFlight, selected>>
observed == <<copyCalls, pkgReads, copied, warnings, shown, confirm, installs, error>>
builder == <<host, tree, bpc, results, extractCalls, rerun>>
safeAction == <<loading, preventDoubleCall, isHandling, running, wrappedFns,
                lastCall, everDisabled>>
spamGuard == <<limit, timeFrame, now, actionsRef, passed, lastCheck>>
countdown == <<timeLeft, isRunning, freezing>>
rbac == <<store, user, query, rpc, permissionId, visited, stack, todo, lookups,
          policies, returned>>
library == <<safeAction, spamGuard, countdown, rbac>>
vars == <<persistent, process, observed, builder, library>>

\* ----------------------------------------------------------- JavaScript values
Range(s) == { s[i] : i \in DOMAIN s }

\* obj[key] on a plain object: an own property, else a property inherited from
\* Object.prototype (a function), else undefined.
Get(obj, key) ==
  IF key \in DOMAIN obj THEN [kind |-> "own", val |-> obj[key]]
  ELSE IF key \in ObjectPrototypeKeys THEN [kind |-> "inherited"]
  ELSE [kind |-> "undefined"]

\* !v is false for an object or function, true for undefined.
IsObject(v) == v.kind # "undefined"

\* Truthiness of installed[d]: an own version string is truthy unless it is "";
\* an inherited function is truthy; undefined is falsy.
Truthy(v) ==
  \/ v.kind = "inherited"
  \/ v.kind = "own" /\ v.val # ""

\* { ...a, ...b }: the own properties of a, overridden by those of b.
Spread(a, b) ==
  [k \in DOMAIN a \cup DOMAIN b |-> IF k \in DOMAIN b THEN b[k] ELSE a[k]]

\* Object.keys(obj): the own keys in insertion order.
ObjectKeys(obj) == SelectSeq(KeyOrder, LAMBDA k : k \in DOMAIN obj)

\* The array left as it is.
DedupeKeepingAll(arr) == arr

\* [...new Set(arr)]: each value once, at the place of its first occurrence.
RECURSIVE Dedupe(_)
Dedupe(arr) ==
  IF arr = <<>> THEN <<>>
  ELSE LET init == Dedupe(SubSeq(arr, 1, Len(arr) - 1))
           last == arr[Len(arr)]
       IN IF last \in Range(init) THEN init ELSE Append(init, last)

\* ------------------------------------------------------------------ helpers
\* The two lockfile tests in the other order.
detectPackageManagerYarnFirst(present) ==
  IF "yarn.lock" \in present THEN "yarn"
  ELSE IF "pnpm-lock.yaml" \in present THEN "pnpm"
  ELSE "npm"

\* index.js:20 detectPackageManager, on the lockfiles present in the cwd.
detectPackageManager(present) ==
  IF "pnpm-lock.yaml" \in present THEN "pnpm"
  ELSE IF "yarn.lock" \in present THEN "yarn"
  ELSE "npm"

\* The dev flag left out of the command line.
InstallCommandWithoutDevFlag(pm, deps, dev) ==
  IF pm = "yarn" THEN [exe |-> "yarn", verb |-> "add", pkgs |-> deps, flag |-> ""]
  ELSE IF pm = "pnpm" THEN [exe |-> "pnpm", verb |-> "add", pkgs |-> deps, flag |-> ""]
  ELSE [exe |-> "npm", verb |-> "install", pkgs |-> deps, flag |-> ""]

\* index.js:30 the command line installDeps builds for manager pm.
InstallCommand(pm, deps, dev) ==
  IF pm = "yarn" THEN
    [exe |-> "yarn", verb |-> "add", pkgs |-> deps, flag |-> IF dev THEN "-D" ELSE ""]
  ELSE IF pm = "pnpm" THEN
    [exe |-> "pnpm", verb |-> "add", pkgs |-> deps, flag |-> IF dev THEN "-D" ELSE ""]
  ELSE
    [exe |-> "npm", verb |-> "install", pkgs |-> deps,
     flag |-> IF dev THEN "--save-dev" ELSE ""]

\* index.js:27 installDeps returns at once on an empty list.
InstallDepsRuns(deps) == Len(deps) # 0

\* index.js:38 what a package manager that exits 0 leaves in package.json: the
\* packages added to `dependencies`, or to `devDependencies` with the dev flag.
PackageJsonAfterInstall(pkg, deps, dev) ==
  LET added == [n \in Range(deps) |-> "^1.0.0"] IN
  IF dev THEN [pkg EXCEPT !.devDependencies = Spread(pkg.devDependencies, added)]
  ELSE [pkg EXCEPT !.dependencies = Spread(pkg.dependencies, added)]

\* index.js:47 getMissingDeps.
getMissingDeps(userPkg, deps, devDeps) ==
  LET installed == Spread(userPkg.dependencies, userPkg.devDependencies) IN
  [missingDeps |-> SelectSeq(deps, LAMBDA d : ~Truthy(Get(installed, d))),
   missingDevDeps |-> SelectSeq(devDeps, LAMBDA d : ~Truthy(Get(installed, d)))]

\* The template-root segment left in place.
RelPathUnstripped(p) == p

\* index.js:73 comp.path.replace(/^component-templates[\\/]/, ""), on segments.
RelPath(p) ==
  IF Len(p) > 1 /\ p[1] = "component-templates" THEN Tail(p) ELSE p

\* index.js:69,74 dest = <cwd>/src/custom/<relPath>.
DestBase == cwd \o <<"src", "custom">>
Dest(p) == DestBase \o RelPath(p)

\* index.js:66 src = <rootDir>/<comp.path>.
Src(p) == rootDir \o p

\* Destination paths of the model's manifests: the consumer files tracked.
FsPaths == UNION { { Dest(m[k].path) : k \in DOMAIN m } : m \in Manifests }

\* fs.copy with overwrite set: the destination is replaced.
CopyFileOverwriting(files, content, dest) ==
  [files |-> [files EXCEPT ![dest] = content], error |-> "none"]

\* index.js:76 fs.copy(src, dest, { overwrite: false }): an existing destination
\* file is kept as it is, and (errorOnExist being left unset) no error is raised.
CopyFile(files, content, dest) ==
  IF files[dest] # "absent" THEN [files |-> files, error |-> "none"]
  ELSE [files |-> [files EXCEPT ![dest] = content], error |-> "none"]

\* index.js:83-90 what copyComponent pushes onto collectedDeps.
Collect(cd, missing) ==
  [deps |-> IF Len(missing.missingDeps) # 0
            THEN cd.deps \o missing.missingDeps ELSE cd.deps,
   devDeps |-> IF Len(missing.missingDevDeps) # 0
               THEN cd.devDeps \o missing.missingDevDeps ELSE cd.devDeps]

\* copyComponent emptying the entry's dependency list as it collects from it.
ConfigAfterCopyDraining(config, name) ==
  IF name \in DOMAIN config
  THEN [config EXCEPT ![name].dependencies = <<>>]
  ELSE config

\* index.js:59-91 copyComponent leaves componentsConfig as it found it.
ConfigAfterCopy(config, name) == config

\* ------------------------------------------------------------------- states
EmptyDeps == [deps |-> <<>>, devDeps |-> <<>>]
NothingShown == [displayed |-> FALSE, deps |-> <<>>, devDeps |-> <<>>]

\* Argument lists of `add [components...]`, the empty one included.
ArgLists == UNION { [1..n -> ArgNames] : n \in 0..MaxArgs }

\* A process that has loaded the manifest and not yet parsed its arguments.
Fresh ==
  /\ fn = "none"
  /\ pc = "start"
  /\ argv = <<>>
  /\ targets = <<>>
  /\ next = 1
  /\ inFlight = 0
  /\ selected = <<>>
  /\ collectedDeps = EmptyDeps
  /\ copyCalls = <<>>
  /\ pkgReads = <<>>
  /\ copied = {}
  /\ warnings = <<>>
  /\ shown = NothingShown
  /\ confirm = "unasked"
  /\ installs = <<>>
  /\ error = "none"

\* The builder is not running.
BuilderOff ==
  /\ host = "posix"
  /\ tree = <<>>
  /\ bpc = "off"
  /\ results = <<>>
  /\ extractCalls = <<>>
  /\ rerun = "first"

\* No component uses useSafeAction.
SafeActionOff ==
  /\ loading = FALSE
  /\ preventDoubleCall = TRUE
  /\ isHandling = FALSE
  /\ running = 0
  /\ wrappedFns = {}
  /\ lastCall = [made |-> FALSE]
  /\ everDisabled = FALSE

\* No component uses useSpamGuard.
SpamGuardOff ==
  /\ limit = 1
  /\ timeFrame = 600
  /\ now = 0
  /\ actionsRef = <<>>
  /\ passed = <<>>
  /\ lastCheck = [made |-> FALSE]

\* count-down.ts:18-20 the store as create() makes it.
CountdownCreated ==
  /\ timeLeft = 0
  /\ isRunning = FALSE
  /\ freezing = FALSE

\* No canAccess call is made.
RbacOff ==
  /\ store = <<>>
  /\ user = <<>>
  /\ query = <<>>
  /\ rpc = "off"
  /\ permissionId = "none"
  /\ visited = <<>>
  /\ stack = <<>>
  /\ todo = <<>>
  /\ lookups = <<>>
  /\ policies = <<>>
  /\ returned = "none"

LibraryOff == SafeActionOff /\ SpamGuardOff /\ CountdownCreated /\ RbacOff

Init ==
  /\ manifestFile \in Manifests
  /\ fs \in [FsPaths -> {"absent", "user file"}]
  /\ pkgJson \in PackageJsons
  /\ lockfiles \in SUBSET Lockfiles
  /\ componentsConfig = manifestFile
  /\ Fresh
  /\ BuilderOff
  /\ LibraryOff

\* ------------------------------------------------------------------ actions
\* index.js:188 `add [components...]` declares no option: commander takes a word
\* that begins with "-" for an option, and an option it does not know is an error.
IsOption(word) == word = AllChoice

\* index.js:186-196 the action of `add [components...]`: names given, copy them
\* by name; none given, show the checklist. (Line 186 registers a command of
\* the same name whose action is addComponents; the dispatch modelled here is
\* the one written in the second registration.)
Dispatch ==
  /\ UNCHANGED <<builder, library>>
  /\ pc = "start"
  /\ \E components \in ArgLists :
       /\ argv' = components
       /\ IF \E i \in 1..Len(components) : IsOption(components[i])
          THEN \* commander: "error: unknown option", the process exits with 1
               /\ fn' = "none"
               /\ targets' = <<>>
               /\ pc' = "crashed"
               /\ error' = "unknown option"
          ELSE IF Len(components) > 0
          THEN /\ fn' = "addComponentsByName"
               /\ targets' = components
               /\ pc' = "copy"
               /\ error' = error
          ELSE /\ fn' = "addComponents"
               /\ targets' = <<>>
               /\ pc' = "checkbox"
               /\ error' = error
  /\ collectedDeps' = EmptyDeps
  /\ UNCHANGED <<persistent, componentsConfig, next, inFlight, selected, copyCalls,
                 pkgReads, copied, warnings, shown, confirm, installs>>

\* "All" ticked together with other entries: the ticked entries are copied too.
InteractiveTargetsAllPlusTicked(answer, choices) ==
  IF AllChoice \in Range(answer)
  THEN choices \o SelectSeq(answer, LAMBDA c : c # AllChoice)
  ELSE answer

\* index.js:107-115 the names addComponents iterates over: every manifest key if
\* the answer includes "--all", the ticked entries otherwise.
InteractiveTargets(answer, choices) ==
  IF AllChoice \in Range(answer) THEN choices ELSE answer

\* index.js:94-115 addComponents: the checklist of "All" and the manifest keys;
\* the answer lists the ticked values in the order of the choices.
AddComponents_Checkbox ==
  /\ UNCHANGED <<builder, library>>
  /\ pc = "checkbox"
  /\ fn = "addComponents"
  /\ LET choices == ObjectKeys(componentsConfig) IN
     \E ticked \in SUBSET ({AllChoice} \cup Range(choices)) :
       LET answer == SelectSeq(<<AllChoice>> \o choices, LAMBDA c : c \in ticked) IN
       /\ selected' = answer
       /\ targets' = InteractiveTargets(answer, choices)
  /\ collectedDeps' = EmptyDeps
  /\ pc' = "copy"
  /\ UNCHANGED <<persistent, componentsConfig, fn, argv, next, inFlight, observed>>

\* index.js:59-91 copyComponent(name, collectedDeps). ioFault: the file system
\* refuses ensureDir or copy (the promise rejects).
copyComponent(name, ioFault) ==
  LET comp == Get(componentsConfig, name) IN
  /\ copyCalls' = Append(copyCalls, name)
  /\ componentsConfig' = ConfigAfterCopy(componentsConfig, name)
  /\ IF ~IsObject(comp) THEN
       \* "Component not found": return
       /\ warnings' = Append(warnings, name)
       /\ UNCHANGED <<fs, copied, collectedDeps, error, pkgReads>>
     ELSE IF comp.kind = "inherited" THEN
       \* comp is a function of Object.prototype: comp.path is undefined and
       \* path.join(rootDir, undefined) throws a TypeError
       /\ error' = "ERR_INVALID_ARG_TYPE"
       /\ UNCHANGED <<fs, copied, collectedDeps, warnings, pkgReads>>
     ELSE IF ioFault THEN
       /\ error' = "EIO"
       /\ UNCHANGED <<fs, copied, collectedDeps, warnings, pkgReads>>
     ELSE
       LET entry == comp.val
           result == CopyFile(fs, TemplateFiles[Src(entry.path)], Dest(entry.path))
           userPkg == pkgJson
       IN
       /\ fs' = result.files
       /\ error' = result.error
       /\ IF result.error # "none" THEN UNCHANGED <<copied, collectedDeps, pkgReads>>
          ELSE /\ copied' = copied \cup {name}
               /\ pkgReads' = Append(pkgReads, Len(copyCalls) + 1)
               /\ collectedDeps' =
                    IF ~userPkg.exists THEN collectedDeps
                    ELSE Collect(collectedDeps,
                                 getMissingDeps(userPkg, entry.dependencies,
                                                entry.devDependencies))
       /\ UNCHANGED warnings

\* The loop going on to the next call while one is still pending.
LoopDoesNotAwait(pending) == TRUE

\* index.js:109,113,149 `await copyComponent(...)`: the loop goes on only when
\* the call it made has settled.
LoopAwaits(pending) == pending = 0

\* `for (const name of ...)` calls copyComponent(name, collectedDeps): the call
\* is started and the loop waits for it.
CopyBegin(f) ==
  /\ UNCHANGED <<builder, library>>
  /\ pc = "copy"
  /\ fn = f
  /\ next + inFlight <= Len(targets)
  /\ LoopAwaits(inFlight)
  /\ inFlight' = inFlight + 1
  /\ UNCHANGED <<persistent, componentsConfig, fn, pc, argv, targets, next, selected,
                 collectedDeps, observed>>

\* The pending copyComponent call settles: it returns, or it throws and the
\* invocation ends.
CopyStep(f) ==
  /\ UNCHANGED <<builder, library>>
  /\ pc = "copy"
  /\ fn = f
  /\ inFlight > 0
  /\ \E ioFault \in BOOLEAN : copyComponent(targets[next], ioFault)
  /\ next' = next + 1
  /\ inFlight' = inFlight - 1
  /\ pc' = IF error' # "none" THEN "crashed" ELSE "copy"
  /\ UNCHANGED <<manifestFile, pkgJson, lockfiles, fn, argv, targets, selected,
                 shown, confirm, installs>>

\* The prompt shown whether or not anything is missing.
NeedsConfirmationAlways(cd) == TRUE

\* index.js:121,155 the condition under which the lists are printed and the
\* confirmation prompt is shown.
NeedsConfirmation(cd) == Len(cd.deps) # 0 \/ Len(cd.devDeps) # 0

\* After the loop: remove duplicates, then print the lists and prompt if
\* anything is missing, else finish.
ReconcileStep(f) ==
  /\ UNCHANGED <<builder, library>>
  /\ pc = "copy"
  /\ fn = f
  /\ next + inFlight > Len(targets)
  /\ LoopAwaits(inFlight)
  /\ LET cd == [deps |-> Dedupe(collectedDeps.deps),
                devDeps |-> Dedupe(collectedDeps.devDeps)]
     IN /\ collectedDeps' = cd
        /\ IF NeedsConfirmation(cd)
           THEN /\ shown' = [displayed |-> TRUE, deps |-> cd.deps, devDeps |-> cd.devDeps]
                /\ pc' = "confirm"
           ELSE /\ shown' = shown
                /\ pc' = "done"
  /\ UNCHANGED <<persistent, process_but_pc_deps, copyCalls, pkgReads, copied,
                 warnings, confirm, installs, error>>

\* The installs run whatever the answer.
InstallsAfterAnyAnswer(answer) == TRUE

\* index.js:138,172 `if (confirm)`: installs follow a yes only.
InstallsAfter(answer) == answer = "yes"

\* The user answers "Install all missing packages now?".
ConfirmStep(f) ==
  /\ UNCHANGED <<builder, library>>
  /\ pc = "confirm"
  /\ fn = f
  /\ \E answer \in {"yes", "no"} :
       /\ confirm' = answer
       /\ pc' = IF InstallsAfter(answer) THEN "installDeps" ELSE "done"
  /\ UNCHANGED <<persistent, process_but_pc, copyCalls, pkgReads, copied, warnings,
                 shown, installs, error>>


\* index.js:26-39 installDeps(deps, dev). exitOk: the package manager exits 0;
\* otherwise execSync throws.
installDeps(deps, dev, exitOk) ==
  IF ~InstallDepsRuns(deps) THEN UNCHANGED <<installs, pkgJson, error>>
  ELSE
    LET pm == detectPackageManager(lockfiles)
        cmd == InstallCommand(pm, deps, dev)
    IN /\ installs' = Append(installs, [cmd |-> cmd, lockfilesAtCall |-> lockfiles])
       /\ IF exitOk
          THEN /\ pkgJson' = PackageJsonAfterInstall(pkgJson, deps, dev)
               /\ error' = error
          ELSE /\ pkgJson' = pkgJson
               /\ error' = "install failed"

\* index.js:139,173 `if (collectedDeps.deps.length) installDeps(deps, false)`.
InstallRegularStep(f) ==
  /\ UNCHANGED <<builder, library>>
  /\ pc = "installDeps"
  /\ fn = f
  /\ IF Len(collectedDeps.deps) # 0
     THEN \E exitOk \in BOOLEAN : installDeps(collectedDeps.deps, FALSE, exitOk)
     ELSE UNCHANGED <<installs, pkgJson, error>>
  /\ pc' = IF error' # "none" THEN "crashed" ELSE "installDevDeps"
  /\ UNCHANGED <<manifestFile, fs, lockfiles, process_but_pc, copyCalls, pkgReads,
                 copied, warnings, shown, confirm>>

\* index.js:140,174 `if (collectedDeps.devDeps.length) installDeps(devDeps, true)`.
InstallDevStep(f) ==
  /\ UNCHANGED <<builder, library>>
  /\ pc = "installDevDeps"
  /\ fn = f
  /\ IF Len(collectedDeps.devDeps) # 0
     THEN \E exitOk \in BOOLEAN : installDeps(collectedDeps.devDeps, TRUE, exitOk)
     ELSE UNCHANGED <<installs, pkgJson, error>>
  /\ pc' = IF error' # "none" THEN "crashed" ELSE "done"
  /\ UNCHANGED <<manifestFile, fs, lockfiles, process_but_pc, copyCalls, pkgReads,
                 copied, warnings, shown, confirm>>

AddComponents_CopyBegin == CopyBegin("addComponents")
AddComponents_Copy == CopyStep("addComponents")
AddComponents_Reconcile == ReconcileStep("addComponents")
AddComponents_Confirm == ConfirmStep("addComponents")
AddComponents_InstallDeps == InstallRegularStep("addComponents")
AddComponents_InstallDevDeps == InstallDevStep("addComponents")

AddComponentsByName_CopyBegin == CopyBegin("addComponentsByName")
AddComponentsByName_Copy == CopyStep("addComponentsByName")
AddComponentsByName_Reconcile == ReconcileStep("addComponentsByName")
AddComponentsByName_Confirm == ConfirmStep("addComponentsByName")
AddComponentsByName_InstallDeps == InstallRegularStep("addComponentsByName")
AddComponentsByName_InstallDevDeps == InstallDevStep("addComponentsByName")

\* index.js:199 program.parse: the status the process ends with. A rejected
\* action promise is an unhandled rejection, which ends Node with status 1, as
\* does commander's own error exit; -1 while the process is running.
ExitCode ==
  IF pc = "done" THEN 0
  ELSE IF pc = "crashed" THEN 1
  ELSE -1

\* The segments path.join sees in a manifest path: the pieces between "/".
Segments(p) == SelectSeq(p, LAMBDA piece : piece # "/")

\* fs.readJsonSync(components.json), each path held as its segments.
ReadManifest(m) == [k \in DOMAIN m |-> [m[k] EXCEPT !.path = Segments(@)]]

\* Something other than the CLI creates or removes a lockfile in the cwd.
LockfileChanges ==
  /\ UNCHANGED builder
  /\ \E l \in Lockfiles :
       lockfiles' = IF l \in lockfiles THEN lockfiles \ {l} ELSE lockfiles \cup {l}
  /\ UNCHANGED <<manifestFile, fs, pkgJson, process, observed, library>>

\* The CLI is run again in the same project: index.js:15 reads components.json.
RunAgain ==
  /\ UNCHANGED <<builder, library>>
  /\ pc \in {"done", "crashed"}
  /\ componentsConfig' = ReadManifest(manifestFile)
  /\ fn' = "none"
  /\ pc' = "start"
  /\ argv' = <<>>
  /\ targets' = <<>>
  /\ next' = 1
  /\ inFlight' = 0
  /\ selected' = <<>>
  /\ collectedDeps' = EmptyDeps
  /\ copyCalls' = <<>>
  /\ pkgReads' = <<>>
  /\ copied' = {}
  /\ warnings' = <<>>
  /\ shown' = NothingShown
  /\ confirm' = "unasked"
  /\ installs' = <<>>
  /\ error' = "none"
  /\ UNCHANGED persistent

Next ==
  \/ Dispatch
  \/ AddComponents_Checkbox
  \/ AddComponents_CopyBegin
  \/ AddComponents_Copy
  \/ AddComponents_Reconcile
  \/ AddComponents_Confirm
  \/ AddComponents_InstallDeps
  \/ AddComponents_InstallDevDeps
  \/ AddComponentsByName_CopyBegin
  \/ AddComponentsByName_Copy
  \/ AddComponentsByName_Reconcile
  \/ AddComponentsByName_Confirm
  \/ AddComponentsByName_InstallDeps
  \/ AddComponentsByName_InstallDevDeps
  \/ LockfileChanges
  \/ RunAgain

Spec == Init /\ [][Next]_vars

\* ------------------------------------------------------------------- claims
\* The copy loop has ended and nothing has been installed yet: package.json is
\* still the one copyComponent read.
LoopEnded == pc = "confirm" \/ (pc = "done" /\ installs = <<>>)

Declared == DOMAIN pkgJson.dependencies \cup DOMAIN pkgJson.devDependencies

SelectedInManifest == Range(targets) \cap DOMAIN componentsConfig

\* C1: with a package.json present, the missing-dependency set accumulated over
\* one invocation is the union of the `dependencies` of the selected components
\* that are in the manifest, minus every name package.json declares under
\* `dependencies` or `devDependencies`.
C1_MissingDepsAreUnionMinusDeclared ==
  (LoopEnded /\ pkgJson.exists) =>
    Range(collectedDeps.deps) =
      UNION { Range(componentsConfig[k].dependencies) : k \in SelectedInManifest }
        \ Declared

\* C2: no step changes the content of a consumer file that is already present,
\* and a copyComponent call whose destination file exists raises no error of
\* its own (only a file-system fault can end it).
C2_ExistingDestinationKept ==
  [][ /\ \A p \in FsPaths : fs[p] # "absent" => fs'[p] = fs[p]
      /\ ( /\ pc = "copy"
           /\ copyCalls' # copyCalls
           /\ targets[next] \in DOMAIN componentsConfig
           /\ fs[Dest(componentsConfig[targets[next]].path)] # "absent" )
         => error' \in {"none", "EIO"} ]_vars

\* A component has been copied onto a destination that held a user's file.
C2_Witness ==
  \E k \in copied :
    /\ k \in DOMAIN componentsConfig
    /\ fs[Dest(componentsConfig[k].path)] = "user file"

\* C3: in addComponentsByName a requested name that is not a manifest key is
\* warned about, copies nothing, adds nothing to the install plan and raises no
\* error, and once the loop is over every requested name that is a manifest key
\* has been copied (unless the file system failed a copy).
C3_UnknownNameSkipped ==
  fn = "addComponentsByName" =>
    /\ \A i \in 1..Len(copyCalls) :
         copyCalls[i] \notin DOMAIN componentsConfig =>
           /\ copyCalls[i] \in Range(warnings)
           /\ copyCalls[i] \notin copied
    /\ error \in {"none", "EIO", "install failed"}
    /\ (pc # "copy" /\ error # "EIO") => SelectedInManifest \subseteq copied
    /\ SelectedInManifest = {} => collectedDeps = EmptyDeps

\* C4: in the interactive mode, when the answer contains "All", copyComponent is
\* called for manifest keys only and at most once per key, and once the loop is
\* over (no file-system fault) it has been called for every key.
C4_AllCopiesEachKeyOnce ==
  (fn = "addComponents" /\ AllChoice \in Range(selected)) =>
    /\ Range(copyCalls) \subseteq DOMAIN componentsConfig
    /\ Cardinality(Range(copyCalls)) = Len(copyCalls)
    /\ (pc # "copy" /\ error # "EIO") => Range(copyCalls) = DOMAIN componentsConfig

\* "All" was ticked together with another entry and the invocation completed.
C4_Witness ==
  /\ fn = "addComponents"
  /\ AllChoice \in Range(selected)
  /\ Len(selected) > 1
  /\ pc = "done"
  /\ Len(copyCalls) = 2

\* C5: while the deduplicated regular and dev lists are both empty, the lists
\* are not displayed, the confirmation prompt is not shown or answered and no
\* package-manager command has been run.
C5_NothingMissingNoPrompt ==
  (Dedupe(collectedDeps.deps) = <<>> /\ Dedupe(collectedDeps.devDeps) = <<>>) =>
    /\ pc \notin {"confirm", "installDeps", "installDevDeps"}
    /\ ~shown.displayed
    /\ confirm = "unasked"
    /\ installs = <<>>

\* An invocation with a package.json that copied something, missed nothing and
\* completed.
C5_Witness ==
  /\ pc = "done"
  /\ pkgJson.exists
  /\ copied # {}
  /\ collectedDeps = EmptyDeps

\* C6: a package-manager command has been run only if the lists were displayed
\* and the prompt was answered yes; after a no, the invocation is over, no
\* command has been run and every copied file is in place.
C6_InstallOnlyAfterYes ==
  /\ (installs # <<>> \/ pc \in {"installDeps", "installDevDeps"}) =>
       (shown.displayed /\ confirm = "yes")
  /\ confirm # "unasked" => shown.displayed
  /\ confirm = "no" =>
       /\ pc = "done"
       /\ installs = <<>>
       /\ \A k \in copied : fs[Dest(componentsConfig[k].path)] # "absent"

\* The user declined after a component had been copied.
C6_Witness ==
  /\ confirm = "no"
  /\ copied # {}
  /\ pc = "done"

\* The flag that marks a dev install for each manager.
DevFlagOf(exe) == IF exe = "npm" THEN "--save-dev" ELSE "-D"

\* The commands a confirmed invocation is to run: one for the regular list if it
\* is not empty, then one with the dev flag for the dev list if it is not empty.
ExpectedInstalls ==
  (IF collectedDeps.deps # <<>>
   THEN <<[pkgs |-> collectedDeps.deps, dev |-> FALSE]>> ELSE <<>>)
  \o (IF collectedDeps.devDeps # <<>>
      THEN <<[pkgs |-> collectedDeps.devDeps, dev |-> TRUE]>> ELSE <<>>)

RanAs(i) ==
  [pkgs |-> installs[i].cmd.pkgs,
   dev |-> installs[i].cmd.flag = DevFlagOf(installs[i].cmd.exe)]

\* C7: the commands run are never more than two and never carry an empty list;
\* each is an add/install of a whole list, with the manager's dev flag or with
\* no flag; they are a prefix of the expected commands, and all of them once a
\* confirmed invocation has completed.
C7_OneInstallPerNonEmptyList ==
  /\ Len(installs) <= 2
  /\ Len(installs) <= Len(ExpectedInstalls)
  /\ \A i \in 1..Len(installs) :
       /\ installs[i].cmd.pkgs # <<>>
       /\ installs[i].cmd.flag \in {"", DevFlagOf(installs[i].cmd.exe)}
       /\ installs[i].cmd.verb = (IF installs[i].cmd.exe = "npm" THEN "install" ELSE "add")
       /\ RanAs(i) = ExpectedInstalls[i]
  /\ (pc = "done" /\ confirm = "yes") => Len(installs) = Len(ExpectedInstalls)

\* A confirmed invocation that ran both commands and completed.
C7_Witness ==
  /\ pc = "done"
  /\ confirm = "yes"
  /\ Len(installs) = 2

\* C8: with no package.json in the cwd the install plan stays empty, nothing is
\* displayed or asked, no package manager is run, no error is raised (other than
\* a file-system fault) and a completed invocation has copied every selected
\* component that is in the manifest.
C8_NoPackageJsonStillCopies ==
  ~pkgJson.exists =>
    /\ collectedDeps = EmptyDeps
    /\ ~shown.displayed
    /\ confirm = "unasked"
    /\ installs = <<>>
    /\ error \in {"none", "EIO"}
    /\ (pc # "copy" /\ pc # "start" /\ pc # "checkbox" /\ error # "EIO") =>
         SelectedInManifest \subseteq copied

\* C9: every command run names the manager its lockfiles at the time of the call
\* select: pnpm if pnpm-lock.yaml was present, else yarn if yarn.lock was, else
\* npm.
C9_ManagerFromLockfilesAtCall ==
  \A i \in 1..Len(installs) :
    LET present == installs[i].lockfilesAtCall
        exe == installs[i].cmd.exe
    IN /\ "pnpm-lock.yaml" \in present => exe = "pnpm"
       /\ ("pnpm-lock.yaml" \notin present /\ "yarn.lock" \in present) => exe = "yarn"
       /\ ("pnpm-lock.yaml" \notin present /\ "yarn.lock" \notin present) => exe = "npm"

\* Both lockfiles were present at the first install and pnpm-lock.yaml was gone
\* at the second: pnpm, then yarn.
C9_Witness ==
  /\ Len(installs) = 2
  /\ installs[1].lockfilesAtCall = {"pnpm-lock.yaml", "yarn.lock"}
  /\ installs[1].cmd.exe = "pnpm"
  /\ installs[2].lockfilesAtCall = {"yarn.lock"}
  /\ installs[2].cmd.exe = "yarn"

\* C10: the loaded manifest equals components.json at startup, and no step
\* changes either of them.
C10_ManifestUnchanged ==
  /\ componentsConfig = manifestFile
  /\ [][manifestFile' = manifestFile /\ componentsConfig' = manifestFile]_vars

\* Copies, the prompt and an install have all happened.
C10_Witness ==
  /\ pc = "done"
  /\ copied # {}
  /\ confirm = "yes"
  /\ installs # <<>>

NoDuplicates(arr) == Cardinality(Range(arr)) = Len(arr)

\* C11: the regular and the dev list displayed to the user, and the list of
\* every package-manager command, hold no name twice; what is displayed is what
\* has been collected, each list deduplicated on its own.
C11_ListsHaveNoDuplicates ==
  /\ shown.displayed =>
       /\ NoDuplicates(shown.deps)
       /\ NoDuplicates(shown.devDeps)
       /\ shown.deps = collectedDeps.deps
       /\ shown.devDeps = collectedDeps.devDeps
  /\ \A i \in 1..Len(installs) :
       /\ NoDuplicates(installs[i].cmd.pkgs)
       /\ installs[i].cmd.pkgs \in {shown.deps, shown.devDeps}

\* The same component was requested twice and a name is missing both as a
\* regular and as a dev dependency.
C11_Witness ==
  /\ targets = <<"B", "B">>
  /\ shown.displayed
  /\ Range(shown.deps) \cap Range(shown.devDeps) # {}
  /\ Len(installs) = 2

\* The call copyCalls[j] copied a component (it named a manifest key and the
\* file system did not fail it).
CopySucceeded(j) ==
  /\ copyCalls[j] \in DOMAIN componentsConfig
  /\ ~(j = Len(copyCalls) /\ error = "EIO")

\* At most one copy is pending; the display, the prompt and the installs come
\* after every copyComponent call has settled; a dev install is the last
\* command and follows the regular one.
SequentialOrder ==
  /\ inFlight <= 1
  /\ (pc \in {"confirm", "installDeps", "installDevDeps", "done"}
        \/ shown.displayed \/ confirm # "unasked" \/ installs # <<>>) =>
       /\ inFlight = 0
       /\ Len(copyCalls) = Len(targets)
  /\ \A i \in 1..Len(installs) :
       installs[i].cmd.flag # "" =>
         /\ i = Len(installs)
         /\ pc \in {"done", "crashed"}
         /\ i = 2 => installs[1].cmd.flag = ""

\* C12 as stated: the order above, and package.json is read for reconciliation
\* only when no copy is still to come.
C12_ReconcileAfterAllCopies ==
  /\ SequentialOrder
  /\ \A i \in 1..Len(pkgReads) :
       \A j \in (pkgReads[i] + 1)..Len(copyCalls) : ~CopySucceeded(j)

\* C12 amended: the order above, and package.json is read once after each copy
\* that succeeded, before the next copy starts.
C12_ReconcileAfterEachCopy ==
  /\ SequentialOrder
  /\ pkgReads = SelectSeq([j \in 1..Len(copyCalls) |-> j], CopySucceeded)

\* Two components were copied, package.json was read twice and both installs ran.
C12_Witness ==
  /\ pc = "done"
  /\ Len(pkgReads) = 2
  /\ Len(installs) = 2

\* C13: the file of every copied component is at <cwd>/src/custom followed by
\* the entry's path without its leading "component-templates" segment, and
\* every consumer file is below <cwd>/src/custom.
C13_DestinationUnderCustom ==
  /\ \A k \in copied \cap DOMAIN componentsConfig :
       LET p == componentsConfig[k].path
           d == <<"project", "src", "custom">> \o Tail(p)
       IN /\ p[1] = "component-templates"
          /\ d \in DOMAIN fs
          /\ fs[d] # "absent"
  /\ \A p \in DOMAIN fs :
       fs[p] # "absent" =>
         /\ Len(p) > 3
         /\ SubSeq(p, 1, 3) = <<"project", "src", "custom">>
         /\ ".." \notin Range(p)

\* Both components were copied, the nested one into its subdirectory.
C13_Witness ==
  /\ copied = {"A", "B"}
  /\ fs[<<"project", "src", "custom", "components", "table", "B.tsx">>] = "template B"
  /\ fs[<<"project", "src", "custom", "components", "A.tsx">>] = "template A"

\* C14: with names given, addComponentsByName runs, the checklist is not shown
\* and what has been copied once the loop is over (unless the file system
\* failed) is exactly the given names that are manifest keys; with no word
\* given the checklist is shown.
C14_ByNameCopiesExactlyNamed ==
  /\ copied \subseteq DOMAIN componentsConfig
  /\ fn = "addComponentsByName" =>
       /\ Len(argv) > 0
       /\ selected = <<>>
       /\ copied \subseteq Range(argv)
       /\ (pc # "copy" /\ error # "EIO") =>
            copied = Range(argv) \cap DOMAIN componentsConfig
  /\ fn = "addComponents" => argv = <<>>
  /\ (argv = <<>> /\ pc # "start") => fn = "addComponents"

\* C15: `add --all` copies every manifest entry.
C15_AddAllCopiesEverything ==
  (argv = <<AllChoice>> /\ pc \in {"done", "crashed"} /\ error # "EIO") =>
    copied = DOMAIN componentsConfig

\* C16: a completed invocation ends with status 0, also after a declined
\* install and when only unknown names were given; a failed copy or install
\* ends the process, with a non-zero status, before any further step.
C16_ExitStatus ==
  /\ pc = "done" => ExitCode = 0
  /\ confirm = "no" => ExitCode = 0
  /\ ( /\ fn = "addComponentsByName"
       /\ Range(argv) \cap DOMAIN componentsConfig = {}
       /\ pc \notin {"copy"} ) => ExitCode = 0
  /\ error \in {"EIO", "install failed"} => (pc = "crashed" /\ ExitCode = 1)

\* ============================================================ manifest builder
\* The build script that scans the template directory and writes
\* components.json (extractDepsFromFile, normalizePath, scanTemplates).

\* Most `from '<module>'` statements in one generated file content.
MaxImports == 2

\* The module strings the template files may import from, each with the
\* characters it is made of.
Spelling ==
  ("react" :> <<"r", "e", "a", "c", "t">>) @@
  ("react-dom" :> <<"r", "e", "a", "c", "t", "-", "d", "o", "m">>) @@
  ("next" :> <<"n", "e", "x", "t">>) @@
  ("next/link" :> <<"n", "e", "x", "t", "/", "l", "i", "n", "k">>) @@
  ("next-themes" :> <<"n", "e", "x", "t", "-", "t", "h", "e", "m", "e", "s">>) @@
  ("@/lib/utils" :> <<"@", "/", "l", "i", "b", "/", "u", "t", "i", "l", "s">>) @@
  ("lodash" :> <<"l", "o", "d", "a", "s", "h">>) @@
  ("./button" :> <<".", "/", "b", "u", "t", "t", "o", "n">>) @@
  ("/abs/file" :> <<"/", "a", "b", "s", "/", "f", "i", "l", "e">>)

ModuleStrings == DOMAIN Spelling

\* A file content, as far as importRegex sees it: the module strings of its
\* `from '<module>'` statements, in the order they occur.
Contents == UNION { [1..n -> ModuleStrings] : n \in 0..MaxImports }

\* dep.startsWith(prefix)
StartsWith(dep, prefix) ==
  /\ Len(Spelling[dep]) >= Len(prefix)
  /\ SubSeq(Spelling[dep], 1, Len(prefix)) = prefix

\* Only a leading "." marks a local import.
IsLocalImportDotOnly(dep) == StartsWith(dep, <<".">>)

\* !(!dep.startsWith(".") && !dep.startsWith("/"))
IsLocalImport(dep) == StartsWith(dep, <<".">>) \/ StartsWith(dep, <<"/">>)

\* dep === "react" || dep.startsWith("next") || dep === "@/lib/utils"
IsDenied(dep) ==
  \/ dep = "react"
  \/ StartsWith(dep, <<"n", "e", "x", "t">>)
  \/ dep = "@/lib/utils"

\* The element appended whether or not it is already there.
SetAddKeepingAll(deps, dep) == Append(deps, dep)

\* deps.add(dep) on a Set, which keeps insertion order.
SetAdd(deps, dep) == IF dep \in Range(deps) THEN deps ELSE Append(deps, dep)

RECURSIVE extractDepsFromFile(_)
extractDepsFromFile(content) ==
  IF content = <<>> THEN <<>>
  ELSE LET deps == extractDepsFromFile(SubSeq(content, 1, Len(content) - 1))
           dep == content[Len(content)]
       IN IF ~IsLocalImport(dep) /\ ~IsDenied(dep) THEN SetAdd(deps, dep)
          ELSE deps

\* The path conventions of the machines the builder may run on.
Hosts == {"posix", "win32"}

\* path.sep
PathSep(h) == IF h = "win32" THEN "\\" ELSE "/"

\* A path string is the sequence of its pieces: "/" and "\\" stand for the two
\* characters, any other piece is a run of characters without either of them.
\* path.join(base, name): the two strings joined by path.sep and normalised,
\* which on win32 turns every "/" into "\\" and on posix changes no character
\* of these paths.
PathJoin(h, base, name) ==
  LET joined == base \o <<PathSep(h)>> \o name
  IN IF h = "win32"
       THEN [i \in DOMAIN joined |-> IF joined[i] = "/" THEN "\\" ELSE joined[i]]
       ELSE joined

\* p.split(path.sep).join("/")
normalizePath(h, p) ==
  [i \in DOMAIN p |-> IF p[i] = PathSep(h) THEN "/" ELSE p[i]]

\* path.parse(item.name): the base name and the last extension of a file name.
\* On posix a backslash is an ordinary character of a name.
PathParse(name) ==
  CASE name = <<"A.tsx">> -> [name |-> "A", ext |-> ".tsx"]
    [] name = <<"A.ts">> -> [name |-> "A", ext |-> ".ts"]
    [] name = <<"B.ts">> -> [name |-> "B", ext |-> ".ts"]
    [] name = <<"B.tsx">> -> [name |-> "B", ext |-> ".tsx"]
    [] name = <<"notes.md">> -> [name |-> "notes", ext |-> ".md"]
    [] name = <<"__proto__.ts">> -> [name |-> "__proto__", ext |-> ".ts"]
    [] name = <<"we", "\\", "ird.tsx">> -> [name |-> "we\\ird", ext |-> ".tsx"]

\* item.name.endsWith(suffix), for a suffix that is a whole extension.
EndsWith(name, suffix) == PathParse(name).ext = suffix

\* Directory entries as readdirSync(dir, { withFileTypes: true }) lists them.
File(name, content) ==
  [name |-> name, kind |-> "file", content |-> content, items |-> <<>>]

Dir(name, items) ==
  [name |-> name, kind |-> "dir", content |-> <<>>, items |-> items]

\* item.isFile() && (item.name.endsWith(".tsx") || item.name.endsWith(".ts"))
IsSourceFile(item) ==
  /\ item.kind = "file"
  /\ EndsWith(item.name, ".tsx") \/ EndsWith(item.name, ".ts")

\* The template directory of the package (TemplateFiles).
PackageTree(content) ==
  <<Dir(<<"components">>,
        <<File(<<"A.tsx">>, content),
          Dir(<<"table">>, <<File(<<"B.tsx">>, <<"lodash">>)>>)>>)>>

\* The template directories the builder may find: one file has the generated
\* content, the others a fixed one. A name with a backslash exists on posix only.
Trees(h, content) ==
  { <<File(<<"A.tsx">>, content)>>,
    <<Dir(<<"components">>,
          <<File(<<"A.tsx">>, content),
            Dir(<<"table">>, <<File(<<"B.ts">>, <<"lodash", "lodash">>)>>)>>),
      File(<<"notes.md">>, <<"lodash">>)>>,
    <<Dir(<<"components">>,
          <<Dir(<<"table">>, <<File(<<"B.tsx">>, content)>>),
            File(<<"B.ts">>, <<"react-dom">>)>>)>>,
    <<Dir(<<"empty">>, <<>>), File(<<"notes.md">>, content)>>,
    PackageTree(content),
    <<Dir(<<"components">>,
          <<File(<<"__proto__.ts">>, content), File(<<"A.tsx">>, <<>>)>>)>>,
    <<Dir(<<"components">>,
          <<File(<<"B.ts">>, <<"react-dom">>),
            File(<<"B.tsx">>, content),
            Dir(<<"table">>, <<File(<<"B.ts">>, <<>>)>>)>>)>>,
    <<Dir(<<"components">>, <<File(<<"A.tsx">>, content)>>),
      Dir(<<"hooks">>, <<File(<<"A.ts">>, <<"lodash">>)>>)>> }
  \cup
  IF h = "posix"
    THEN { <<Dir(<<"components">>, <<File(<<"we", "\\", "ird.tsx">>, content)>>)>> }
    ELSE {}

\* The entry's dependencies listed as its devDependencies too.
DevDependenciesSameAsDependencies(deps) == deps

\* devDependencies: [] in the entry of a file with these dependencies.
DevDependenciesOf(deps) == <<>>

\* results[compName] = value on a plain object: an own property is set or
\* replaced, except that the key "__proto__" is the accessor inherited from
\* Object.prototype, which replaces the prototype and adds no own property.
AssignProperty(obj, key, value) ==
  IF key = "__proto__" THEN obj ELSE Spread(obj, key :> value)

RECURSIVE scanTemplates(_, _, _)
scanTemplates(h, items, base) ==
  IF items = <<>> THEN <<>>
  ELSE LET earlier == scanTemplates(h, SubSeq(items, 1, Len(items) - 1), base)
           item == items[Len(items)]
           relPath == normalizePath(h, PathJoin(h, base, item.name))
       IN IF item.kind = "dir"
            THEN Spread(earlier, scanTemplates(h, item.items, relPath))
          ELSE IF IsSourceFile(item)
            THEN LET deps == extractDepsFromFile(item.content)
                 IN AssignProperty(earlier, PathParse(item.name).name,
                                   Entry(relPath, deps, DevDependenciesOf(deps)))
          ELSE earlier

\* The contents of the files scanTemplates passes to extractDepsFromFile, in
\* the order of the calls.
RECURSIVE SourceFiles(_)
SourceFiles(items) ==
  IF items = <<>> THEN <<>>
  ELSE LET earlier == SourceFiles(SubSeq(items, 1, Len(items) - 1))
           item == items[Len(items)]
       IN IF item.kind = "dir" THEN earlier \o SourceFiles(item.items)
          ELSE IF IsSourceFile(item) THEN Append(earlier, item.content)
          ELSE earlier

\* The builder is about to run on some host and some template directory.
BuilderInit ==
  /\ manifestFile \in Manifests
  /\ fs = [p \in FsPaths |-> "absent"]
  /\ pkgJson = NoPackageJson
  /\ lockfiles = {}
  /\ componentsConfig = manifestFile
  /\ Fresh
  /\ host \in Hosts
  /\ \E content \in Contents : tree \in Trees(host, content)
  /\ bpc = "start"
  /\ results = <<>>
  /\ extractCalls = <<>>
  /\ rerun = "first"
  /\ LibraryOff

\* The extractDepsFromFile calls of a scan of these directory entries.
ExtractCallsOf(items) ==
  [i \in DOMAIN SourceFiles(items) |->
     [content |-> SourceFiles(items)[i],
      deps |-> extractDepsFromFile(SourceFiles(items)[i])]]

\* The new mapping merged into the manifest that is already there.
WrittenManifestMerged(previous, components) == Spread(previous, components)

\* fs.writeFileSync(outPath, JSON.stringify(components, null, 2)): the file is
\* replaced by the serialized mapping.
WrittenManifest(previous, components) == components

\* const components = scanTemplates(templatesDir);
\* fs.writeFileSync(outPath, JSON.stringify(components, null, 2));
BuildManifest ==
  /\ bpc = "start"
  /\ results' = scanTemplates(host, tree, <<"component-templates">>)
  /\ extractCalls' = ExtractCallsOf(tree)
  /\ manifestFile' = WrittenManifest(manifestFile, results')
  /\ bpc' = "done"
  /\ UNCHANGED <<host, tree, rerun, fs, pkgJson, lockfiles, process, observed, library>>

\* The mapping collected so far written out when the scan fails.
ManifestOnAbortPartial(previous, partial) == partial

\* readdirSync or readFileSync throws: nothing catches the exception, the
\* script ends before the writeFileSync statement is reached.
ManifestOnAbort(previous, partial) == previous

\* The scan fails while it reads entry n of the template directory, or (n = 0)
\* the template directory itself: `components` is never assigned.
BuildManifestAborts ==
  /\ bpc = "start"
  /\ \E n \in 0..Len(tree) :
       LET before == SubSeq(tree, 1, n - 1) IN
       /\ extractCalls' = ExtractCallsOf(before)
       /\ manifestFile' =
            ManifestOnAbort(manifestFile,
                            scanTemplates(host, before, <<"component-templates">>))
  /\ bpc' = "failed"
  /\ UNCHANGED <<host, tree, results, rerun, fs, pkgJson, lockfiles, process, observed, library>>

\* The template directories an edit of the templates may leave.
EditedTrees(h) == Trees(h, <<>>) \cup {<<>>}

\* The script is run once more on the template directory as it is.
RunBuilderAgain ==
  /\ bpc = "done"
  /\ rerun = "first"
  /\ rerun' = "unchanged"
  /\ bpc' = "start"
  /\ results' = <<>>
  /\ extractCalls' = <<>>
  /\ UNCHANGED <<host, tree, persistent, process, observed, library>>

\* Template files are added, removed or edited, and the script is run again.
TemplatesChange ==
  /\ bpc = "done"
  /\ rerun = "first"
  /\ tree' \in EditedTrees(host) \ {tree}
  /\ rerun' = "changed"
  /\ bpc' = "start"
  /\ results' = <<>>
  /\ extractCalls' = <<>>
  /\ UNCHANGED <<host, persistent, process, observed, library>>

BuilderNext ==
  \/ BuildManifest
  \/ BuildManifestAborts
  \/ RunBuilderAgain
  \/ TemplatesChange

BuilderSpec == BuilderInit /\ [][BuilderNext]_vars

\* ----------------------------------------------- builder, then the CLI
\* The manifest is built from the package's template directory and the CLI then
\* runs with it. The CLI process that was started before the build still holds
\* the manifest it loaded; the processes started later load the built one.
PipelineContents == {<<>>, <<"lodash">>, <<"lodash", "react-dom">>}

PipelineInit ==
  /\ manifestFile \in { m \in Manifests :
                          \E k \in DOMAIN m : m[k].devDependencies # <<>> }
  /\ fs = [p \in FsPaths |-> "absent"]
  /\ pkgJson \in { NoPackageJson,
                   PackageJson(NoDeps, NoDeps),
                   PackageJson([n \in {"x", "y"} |-> "^1.0.0"], [n \in {"t"} |-> "^1.0.0"]) }
  /\ lockfiles = {}
  /\ componentsConfig = manifestFile
  /\ Fresh
  /\ host \in Hosts
  /\ \E content \in PipelineContents : tree = PackageTree(content)
  /\ bpc = "start"
  /\ results = <<>>
  /\ extractCalls = <<>>
  /\ rerun = "first"
  /\ LibraryOff

CliAfterBuild == bpc = "done" /\ Next

PipelineNext ==
  \/ BuildManifest
  \/ CliAfterBuild

PipelineSpec == PipelineInit /\ [][PipelineNext]_vars

\* ------------------------------------------------------- claims on the builder
\* The module strings that name a relative or an absolute path.
LocalModules == {"./button", "/abs/file"}

\* The module strings of the deny-listed packages: react, next (a sub-path of
\* the package included) and the alias @/lib/utils.
DenyListedModules == {"react", "next", "next/link", "@/lib/utils"}

\* C17: extractDepsFromFile returns exactly the non-relative module strings of
\* the file's `from` statements minus the deny-list (react, next, @/lib/utils):
\* no other non-relative module is dropped and nothing is added.
C17_ExactlyNonRelativeMinusDenyList ==
  \A i \in DOMAIN extractCalls :
    Range(extractCalls[i].deps) =
      (Range(extractCalls[i].content) \ LocalModules) \ DenyListedModules

\* C18: a file whose `from` statements name only relative or absolute paths
\* gets the empty dependency list.
C18_OnlyLocalImportsGiveEmptyList ==
  /\ \A i \in DOMAIN extractCalls :
       Range(extractCalls[i].content) \subseteq LocalModules =>
         extractCalls[i].deps = <<>>
  /\ \A item \in Range(tree) :
       ( /\ bpc = "done"
         /\ IsSourceFile(item)
         /\ Range(item.content) \subseteq LocalModules ) =>
         manifestFile[PathParse(item.name).name].dependencies = <<>>

\* A file with both kinds of local import, and nothing else, was scanned.
C18_Witness ==
  /\ bpc = "done"
  /\ \E i \in DOMAIN extractCalls :
       /\ Range(extractCalls[i].content) = LocalModules
       /\ extractCalls[i].deps = <<>>
  /\ "A" \in DOMAIN manifestFile
  /\ manifestFile["A"].dependencies = <<>>

\* C19: the dependencies list of every manifest entry has no duplicate, however
\* often the file imports the same module.
C19_DependenciesHaveNoDuplicates ==
  /\ \A i \in DOMAIN extractCalls : NoDuplicates(extractCalls[i].deps)
  /\ \A k \in DOMAIN results : NoDuplicates(results[k].dependencies)
  /\ bpc = "done" =>
       \A k \in DOMAIN manifestFile : NoDuplicates(manifestFile[k].dependencies)

\* A file that imports the same external module in every statement was scanned
\* and its entry lists the module once.
C19_Witness ==
  /\ bpc = "done"
  /\ \E i \in DOMAIN extractCalls :
       /\ extractCalls[i].content = <<"react-dom", "react-dom">>
       /\ extractCalls[i].deps = <<"react-dom">>
  /\ \E k \in DOMAIN manifestFile :
       manifestFile[k].dependencies = <<"react-dom">>

\* C20: no path of the generated manifest contains a backslash, on either host
\* and at every depth of the template tree.
C20_NoBackslashInPaths ==
  /\ \A k \in DOMAIN results : "\\" \notin Range(results[k].path)
  /\ bpc = "done" =>
       \A k \in DOMAIN manifestFile : "\\" \notin Range(manifestFile[k].path)

\* The .ts and .tsx files of a template directory in the order of a depth-first
\* traversal that follows the directory listings, each with its base name and
\* its path from the template root, written with "/".
RECURSIVE VisitedFiles(_, _)
VisitedFiles(items, dirPath) ==
  IF items = <<>> THEN <<>>
  ELSE LET item == Head(items)
           itemPath == dirPath \o <<"/">> \o item.name
           here == IF item.kind = "dir" THEN VisitedFiles(item.items, itemPath)
                   ELSE IF PathParse(item.name).ext \in {".ts", ".tsx"}
                     THEN << [key |-> PathParse(item.name).name,
                              path |-> itemPath,
                              content |-> item.content] >>
                   ELSE <<>>
       IN here \o VisitedFiles(Tail(items), dirPath)

Visited == VisitedFiles(tree, <<"component-templates">>)

\* The last file visited that has this base name.
LastVisited(k) ==
  Visited[CHOOSE i \in DOMAIN Visited :
            /\ Visited[i].key = k
            /\ \A j \in DOMAIN Visited : Visited[j].key = k => j <= i]

\* C21: the manifest has exactly one entry per distinct base name, and of the
\* files that share a base name the one visited last gives the entry.
C21_OneEntryPerBaseNameLastWins ==
  bpc = "done" =>
    /\ DOMAIN manifestFile = { Visited[i].key : i \in DOMAIN Visited }
    /\ \A k \in DOMAIN manifestFile :
         manifestFile[k].path = LastVisited(k).path

\* C22: a scan that fails leaves components.json as it was; the file changes
\* only in the step that completes the whole traversal, to the full mapping.
C22_FailedScanWritesNothing ==
  [][ /\ bpc' = "failed" => manifestFile' = manifestFile
      /\ manifestFile' # manifestFile =>
           /\ bpc' = "done"
           /\ manifestFile' = results'
           /\ extractCalls' = ExtractCallsOf(tree) ]_vars

\* A run failed after it had scanned a source file, and the manifest that was
\* there before is still there.
C22_Witness ==
  /\ bpc = "failed"
  /\ rerun = "first"
  /\ extractCalls # <<>>
  /\ manifestFile \in Manifests

\* C23: the manifest keys are exactly the base names of the .ts/.tsx files of
\* the tree; a file without `from` statements has an entry with an empty
\* dependencies list, and a directory without such files adds no key.
C23_KeysAreBaseNames ==
  bpc = "done" =>
    /\ \A i \in DOMAIN Visited : Visited[i].key \in DOMAIN manifestFile
    /\ \A k \in DOMAIN manifestFile : \E i \in DOMAIN Visited : Visited[i].key = k
    /\ \A k \in DOMAIN manifestFile :
         LastVisited(k).content = <<>> => manifestFile[k].dependencies = <<>>

\* C25: the written manifest holds entries of files of the current tree only,
\* whatever the manifest was before, and a run on an unchanged tree writes the
\* manifest that is already there.
C25_RebuiltWholesale ==
  /\ [](bpc = "done" =>
          \A k \in DOMAIN manifestFile :
            \E i \in DOMAIN Visited :
              /\ Visited[i].key = k
              /\ Visited[i].path = manifestFile[k].path)
  /\ [][(bpc' = "done" /\ rerun = "unchanged") => manifestFile' = manifestFile]_vars

\* The builder ran twice with an edit in between that removed the file of an
\* entry, and the entry is gone.
C25_Witness ==
  /\ bpc = "done"
  /\ rerun = "changed"
  /\ DOMAIN manifestFile = {"A"}
  /\ Visited # <<>>

\* The running CLI process loaded the manifest the builder wrote.
LoadedBuiltManifest ==
  /\ bpc = "done"
  /\ componentsConfig = ReadManifest(manifestFile)

\* C24: every entry the builder writes has devDependencies = [], so a CLI run
\* on a built manifest plans no dev dependency and runs no dev install.
C24_BuiltManifestHasNoDevDependencies ==
  /\ \A k \in DOMAIN results : results[k].devDependencies = <<>>
  /\ bpc = "done" =>
       \A k \in DOMAIN manifestFile : manifestFile[k].devDependencies = <<>>
  /\ LoadedBuiltManifest =>
       /\ collectedDeps.devDeps = <<>>
       /\ shown.devDeps = <<>>
       /\ \A i \in DOMAIN installs : installs[i].cmd.flag = ""

\* A CLI run on the built manifest copied, asked, and installed the regular
\* dependencies.
C24_Witness ==
  /\ LoadedBuiltManifest
  /\ pc = "done"
  /\ copied = {"A", "B"}
  /\ confirm = "yes"
  /\ installs # <<>>

\* =============================================================== template hooks
\* The CLI and the builder are not running.
ToolsOff ==
  /\ manifestFile = <<>>
  /\ fs = <<>>
  /\ pkgJson = NoPackageJson
  /\ lockfiles = {}
  /\ componentsConfig = <<>>
  /\ Fresh
  /\ BuilderOff

\* ------------------------------------------------- hooks/safe-action.ts
\* Most executions of the action the model lets be pending at once.
MaxRunning == 2

\* The double-call check left out of the guard.
BlockedOnlyWhileLoading(l, p, handling) == l

\* safe-action.ts:41 if (loading || (preventDoubleCall && isHandling.current)) return;
Blocked(l, p, handling) == l \/ (p /\ handling)

\* safe-action.ts:40-49 the closure `wrapped` of a render with these options.
Wrapped(l, p) == [loading |-> l, preventDoubleCall |-> p]

\* The component is mounted: the first render has called useSafeAction.
SafeActionInit ==
  /\ ToolsOff
  /\ SpamGuardOff /\ CountdownCreated /\ RbacOff
  /\ loading \in BOOLEAN
  /\ preventDoubleCall \in BOOLEAN
  /\ isHandling = FALSE
  /\ running = 0
  /\ wrappedFns = {Wrapped(loading, preventDoubleCall)}
  /\ lastCall = [made |-> FALSE]
  /\ everDisabled = ~preventDoubleCall

\* safe-action.ts:30-59 the component renders again with these options:
\* useCallback makes a new `wrapped`, the ref keeps its value.
Render(l, p) ==
  /\ loading' = l
  /\ preventDoubleCall' = p
  /\ wrappedFns' = wrappedFns \cup {Wrapped(l, p)}
  /\ everDisabled' = (everDisabled \/ ~p)
  /\ UNCHANGED <<isHandling, running, lastCall>>
  /\ UNCHANGED <<persistent, process, observed, builder, spamGuard, countdown, rbac>>

SafeAction_Render == \E l \in BOOLEAN, p \in BOOLEAN : Render(l, p)

\* safe-action.ts:40-45 a function the hook returned is called, the one of the
\* latest render or an older one that something still holds. With
\* enableDebounce the lodash wrapper passes the call on or swallows it. A call
\* that is not blocked sets the flag and starts the action.
CallWrapped(w, passedOn) ==
  LET starts == passedOn /\ ~Blocked(w.loading, w.preventDoubleCall, isHandling) IN
  /\ starts => running < MaxRunning
  /\ lastCall' = [made |-> TRUE, loading |-> w.loading,
                  handlingBefore |-> isHandling, runningBefore |-> running,
                  started |-> starts]
  /\ isHandling' = (starts \/ isHandling)
  /\ running' = IF starts THEN running + 1 ELSE running
  /\ UNCHANGED <<loading, preventDoubleCall, wrappedFns, everDisabled>>
  /\ UNCHANGED <<persistent, process, observed, builder, spamGuard, countdown, rbac>>

SafeAction_Call == \E w \in wrappedFns, passedOn \in BOOLEAN : CallWrapped(w, passedOn)

\* safe-action.ts:45-48 a pending action() resolves or throws: the finally
\* block clears the flag.
SafeAction_Settle ==
  /\ running > 0
  /\ running' = running - 1
  /\ isHandling' = FALSE
  /\ UNCHANGED <<loading, preventDoubleCall, wrappedFns, lastCall, everDisabled>>
  /\ UNCHANGED <<persistent, process, observed, builder, spamGuard, countdown, rbac>>

SafeActionNext ==
  \/ SafeAction_Render
  \/ SafeAction_Call
  \/ SafeAction_Settle

SafeActionSpec == SafeActionInit /\ [][SafeActionNext]_vars

\* C26: with preventDoubleCall enabled in every render, at most one execution
\* of the action is pending at any time; a call of a function whose render had
\* loading true, or a call made while an execution is pending, starts nothing;
\* and the flag is set exactly while an execution is pending.
C26_AtMostOneExecutionInFlight ==
  ~everDisabled =>
    /\ running <= 1
    /\ isHandling <=> running = 1
    /\ lastCall.made =>
         ((lastCall.loading \/ lastCall.runningBefore > 0) => ~lastCall.started)

\* A call was dropped because an execution was pending, and that execution has
\* settled since.
C26_Witness ==
  /\ ~everDisabled
  /\ lastCall.made
  /\ ~lastCall.loading
  /\ lastCall.runningBefore = 1
  /\ ~lastCall.started
  /\ running = 0
  /\ ~isHandling

\* --------------------------------------------------- hooks/spam-guard.ts
\* Largest `limit`, largest `timeFrame` and last clock value of the model.
MaxLimit == 2
MaxTimeFrame == 3
MaxNow == 5

\* The limit reached only when it is exceeded.
OverLimit(count, l) == count > l

\* spam-guard.ts:20 updatedActions.length >= limit
AtLimit(count, l) == count >= l

\* spam-guard.ts:18 the filter predicate: now - t < timeFrame
InTimeFrame(t) == now - t < timeFrame

SpamGuardInit ==
  /\ ToolsOff
  /\ SafeActionOff /\ CountdownCreated /\ RbacOff
  /\ limit \in 1..MaxLimit
  /\ timeFrame \in 1..MaxTimeFrame
  /\ now = 0
  /\ actionsRef = <<>>
  /\ passed = <<>>
  /\ lastCheck = [made |-> FALSE]

\* Date.now() has moved on by a millisecond.
ClockAdvances ==
  /\ now < MaxNow
  /\ now' = now + 1
  /\ UNCHANGED <<limit, timeFrame, actionsRef, passed, lastCheck>>
  /\ UNCHANGED <<persistent, process, observed, builder, safeAction, countdown, rbac>>

\* spam-guard.ts:16-28 checkSpam()
checkSpam ==
  LET updatedActions == SelectSeq(actionsRef, InTimeFrame) IN
  /\ IF AtLimit(Len(updatedActions), limit)
     THEN /\ lastCheck' = [made |-> TRUE, value |-> FALSE, onSpam |-> TRUE,
                           actionsBefore |-> actionsRef]
          /\ UNCHANGED <<actionsRef, passed>>
     ELSE /\ actionsRef' = Append(updatedActions, now)
          /\ passed' = Append(passed, now)
          /\ lastCheck' = [made |-> TRUE, value |-> TRUE, onSpam |-> FALSE,
                           actionsBefore |-> actionsRef]
  /\ UNCHANGED <<limit, timeFrame, now>>
  /\ UNCHANGED <<persistent, process, observed, builder, safeAction, countdown, rbac>>

SpamGuardNext ==
  \/ ClockAdvances
  \/ checkSpam

SpamGuardSpec == SpamGuardInit /\ [][SpamGuardNext]_vars

\* C27: of the calls that returned true, any limit + 1 were made at least
\* timeFrame apart from first to last, so no window of length timeFrame holds
\* more than limit of them; a rejected call runs onSpam, returns false and
\* leaves the recorded timestamps as they were.
C27_AtMostLimitPerWindow ==
  /\ \A i \in DOMAIN passed, j \in DOMAIN passed :
       j >= i + limit => passed[j] - passed[i] >= timeFrame
  /\ lastCheck.made =>
       /\ lastCheck.onSpam <=> ~lastCheck.value
       /\ ~lastCheck.value => actionsRef = lastCheck.actionsBefore
       /\ lastCheck.value =>
            actionsRef # <<>> /\ actionsRef[Len(actionsRef)] = passed[Len(passed)]

\* With limit 2 a call was rejected after the window had already moved past the
\* first accepted calls.
C27_Witness ==
  /\ limit = 2
  /\ timeFrame = 2
  /\ Len(passed) >= 3
  /\ lastCheck.made
  /\ ~lastCheck.value
  /\ lastCheck.onSpam

\* --------------------------------------------------- hooks/count-down.ts
\* timeLeft is a JavaScript number. The model counts it in halves of a unit, so
\* that 2 stands for 1 and an odd value for a number with a fraction.
\* Largest whole value given to setTime.
MaxTime == 15

\* The non-negative values setTime may be given, in halves.
TimeValues == 0..(2 * MaxTime)

CountdownInit ==
  /\ ToolsOff
  /\ SafeActionOff /\ SpamGuardOff /\ RbacOff
  /\ CountdownCreated

\* count-down.ts:22 setTime: (time) => set({ timeLeft: time })
setTime(time) ==
  /\ timeLeft' = time
  /\ UNCHANGED <<isRunning, freezing>>
  /\ UNCHANGED <<persistent, process, observed, builder, safeAction, spamGuard, rbac>>

Countdown_SetTime == \E time \in TimeValues : setTime(time)

\* count-down.ts:24-27 decrement: timeLeft - 1 if timeLeft > 0, else the state
\* as it is.
decrement ==
  /\ timeLeft' = IF timeLeft > 0 THEN timeLeft - 2 ELSE timeLeft
  /\ UNCHANGED <<isRunning, freezing>>
  /\ UNCHANGED <<persistent, process, observed, builder, safeAction, spamGuard, rbac>>

\* count-down.ts:29 reset: () => set({ timeLeft: 0, isRunning: false })
reset ==
  /\ timeLeft' = 0
  /\ isRunning' = FALSE
  /\ UNCHANGED freezing
  /\ UNCHANGED <<persistent, process, observed, builder, safeAction, spamGuard, rbac>>

\* count-down.ts:31 start: () => set({ isRunning: true })
start ==
  /\ isRunning' = TRUE
  /\ UNCHANGED <<timeLeft, freezing>>
  /\ UNCHANGED <<persistent, process, observed, builder, safeAction, spamGuard, rbac>>

\* count-down.ts:33 stop: () => set({ isRunning: false })
stop ==
  /\ isRunning' = FALSE
  /\ UNCHANGED <<timeLeft, freezing>>
  /\ UNCHANGED <<persistent, process, observed, builder, safeAction, spamGuard, rbac>>

\* count-down.ts:35 freeze: () => set({ freezing: true })
freeze ==
  /\ freezing' = TRUE
  /\ UNCHANGED <<timeLeft, isRunning>>
  /\ UNCHANGED <<persistent, process, observed, builder, safeAction, spamGuard, rbac>>

\* count-down.ts:37 defrost: () => set({ freezing: false })
defrost ==
  /\ freezing' = FALSE
  /\ UNCHANGED <<timeLeft, isRunning>>
  /\ UNCHANGED <<persistent, process, observed, builder, safeAction, spamGuard, rbac>>

CountdownNext ==
  \/ Countdown_SetTime
  \/ decrement
  \/ reset
  \/ start
  \/ stop
  \/ freeze
  \/ defrost

CountdownSpec == CountdownInit /\ [][CountdownNext]_vars

\* C30: from the initial state and after any setTime with a non-negative
\* value, timeLeft is never negative, whatever operations follow.
C30_TimeLeftNeverNegative == timeLeft >= 0

\* ---------------------------------------------------- providers/rbac.tsx
\* Most policies of one permission, and the deepest collect() recursion the
\* model follows.
MaxPolicies == 2
MaxDepth == 4

\* An action or a resource name is the sequence of its pieces; ":" stands for
\* the character, any other piece is a run of characters without it.
ActionNames == { <<"read">>, <<"admin", ":", "read">> }
ResourceNames == { <<"user">>, <<"user", ":", "admin">> }

\* rbac.tsx:173 the key `${p.resource}:${p.action}`
PermKey(resource, action) == resource \o <<":">> \o action

Permission(id, action, resource) == [id |-> id, action |-> action, resource |-> resource]

\* The `permissions` arrays given to createMemoryRBACStore.
PermissionLists ==
  LET read == Permission("p1", <<"read">>, <<"user">>)
      adminRead == Permission("p2", <<"admin", ":", "read">>, <<"user">>)
  IN { <<read>>, <<read, adminRead>>, <<adminRead>> }

RoleIds == {"r1", "r2", "ghost"}

Role(permissions, inherits) == [permissions |-> permissions, inherits |-> inherits]

\* rbac.tsx:168 roleMap for the `roles` arrays given to createMemoryRBACStore:
\* r1 is always there, r2 may be missing, "ghost" is never there; `inherits`
\* may name the role itself, the other role or the one that is missing.
RoleMaps ==
  LET r1s == { Role(ps, is) : ps \in {<<>>, <<"p2">>},
                              is \in {<<>>, <<"r1">>, <<"r2">>, <<"ghost", "r2">>} }
      r2s == { Role(ps, is) : ps \in {<<>>, <<"p1">>, <<"p2">>},
                              is \in {<<>>, <<"r1">>, <<"r2">>} }
  IN { "r1" :> a : a \in r1s } \cup { ("r1" :> a) @@ ("r2" :> b) : a \in r1s, b \in r2s }

UserRoles == { <<>>, <<"r1">>, <<"ghost", "r2", "r1">> }

\* rbac.tsx:126-130 the context of the call: user.id and resource.ownerId.
Ctx == [user |-> [id |-> "u1"], resource |-> [ownerId |-> "u1"]]

\* rbac.tsx:84 getByPath(ctx, "a.b"); a missing key gives undefined.
GetByPath(path) ==
  IF path[1] \in DOMAIN Ctx /\ path[2] \in DOMAIN Ctx[path[1]]
  THEN Ctx[path[1]][path[2]] ELSE "undefined"

Condition(field, op, value) == [field |-> field, op |-> op, value |-> value]

\* rbac.tsx:87-93 evalCondition. The value of an `in` condition is an array; the
\* model holds the value of an `eq` or `ne` condition as a one-element sequence.
evalCondition(cond) ==
  LET left == GetByPath(cond.field) IN
  IF cond.op = "eq" THEN left = cond.value[1]
  ELSE IF cond.op = "ne" THEN left # cond.value[1]
  ELSE IF cond.op = "in" THEN left \in Range(cond.value)
  ELSE FALSE

\* rbac.tsx:95 conds.every(c => evalCondition(c, ctx))
evalConditions(conds) == \A i \in DOMAIN conds : evalCondition(conds[i])

Policy(pid, effect, conds) == [permissionId |-> pid, effect |-> effect, conditions |-> conds]

\* The policies a store may hold for permission pid.
PoliciesOf(pid) ==
  LET isOwner == Condition(<<"resource", "ownerId">>, "eq", <<"u1">>)
      notOwner == Condition(<<"resource", "ownerId">>, "ne", <<"u1">>)
      knownUser == Condition(<<"user", "id">>, "in", <<"u1", "u2">>)
  IN { Policy(pid, "allow", <<>>),
       Policy(pid, "deny", <<>>),
       Policy(pid, "allow", <<notOwner>>),
       Policy(pid, "deny", <<knownUser, isOwner>>) }

PolicyLists(pid) == UNION { [1..n -> PoliciesOf(pid)] : n \in 0..MaxPolicies }

\* rbac.tsx:184 getPermissionId: permMap.get(`${r}:${a}`) ?? null, where permMap
\* was filled in array order (rbac.tsx:172), a later permission replacing an
\* earlier one with the same key.
RECURSIVE getPermissionId(_, _, _)
getPermissionId(permissions, a, r) ==
  IF permissions = <<>> THEN "null"
  ELSE LET p == permissions[Len(permissions)] IN
       IF PermKey(p.resource, p.action) = PermKey(r, a) THEN p.id
       ELSE getPermissionId(SubSeq(permissions, 1, Len(permissions) - 1), a, r)

\* rbac.tsx:183 getRoles(ids): the roles of the ids the map knows, in order.
getRoles(ids) ==
  LET known == SelectSeq(ids, LAMBDA id : id \in DOMAIN store.roles)
  IN [i \in DOMAIN known |-> store.roles[known[i]]]

\* Every role id taken as new.
VisitedHasNone(set, roleId) == FALSE

\* rbac.tsx:114 visited.has(roleId)
VisitedHas(set, roleId) == roleId \in Range(set)

\* rbac.tsx:122 roles.some(r => r.permissions.includes(permissionId))
hasRoleGrant ==
  LET roles == getRoles(visited)
  IN \E i \in DOMAIN roles : permissionId \in Range(roles[i].permissions)

\* rbac.tsx:132-138 the policy loop and the final return.
RECURSIVE PolicyDecision(_)
PolicyDecision(ps) ==
  IF ps = <<>> THEN hasRoleGrant
  ELSE IF ~evalConditions(Head(ps).conditions) THEN PolicyDecision(Tail(ps))
  ELSE IF Head(ps).effect = "deny" THEN FALSE
  ELSE IF Head(ps).effect = "allow" THEN hasRoleGrant
  ELSE PolicyDecision(Tail(ps))

\* canAccess(store, user, action, resource, context) is called.
RbacInit ==
  /\ ToolsOff
  /\ SafeActionOff /\ SpamGuardOff /\ CountdownCreated
  /\ store \in [roles : RoleMaps, permissions : PermissionLists]
  /\ user \in UserRoles
  /\ query \in [action : ActionNames, resource : ResourceNames]
  /\ rpc = "start"
  /\ permissionId = "none"
  /\ visited = <<>>
  /\ stack = <<>>
  /\ todo = <<>>
  /\ lookups = [id \in RoleIds |-> 0]
  /\ policies = <<>>
  /\ returned = "none"

\* rbac.tsx:108-109 the permission is looked up; without one the call returns false.
CanAccess_GetPermissionId ==
  /\ rpc = "start"
  /\ permissionId' = getPermissionId(store.permissions, query.action, query.resource)
  /\ IF permissionId' = "null"
     THEN rpc' = "returned" /\ returned' = FALSE /\ UNCHANGED todo
     ELSE rpc' = "collect" /\ todo' = user /\ UNCHANGED returned
  /\ UNCHANGED <<store, user, query, visited, stack, lookups, policies>>
  /\ UNCHANGED <<persistent, process, observed, builder, safeAction, spamGuard, countdown>>

\* rbac.tsx:113-119 collect(roleId) is called, by the loop over user.roles or by
\* the loop over the inherits of the role being collected: a visited id returns
\* at once, a new one is added, fetched, and its inherits are walked.
CanAccess_Collect ==
  /\ rpc = "collect"
  /\ Len(stack) < MaxDepth
  /\ \/ stack # <<>> /\ stack[Len(stack)] # <<>>
     \/ stack = <<>> /\ todo # <<>>
  /\ LET inner == stack # <<>>
         roleId == IF inner THEN Head(stack[Len(stack)]) ELSE Head(todo)
         rest == IF inner
                 THEN [stack EXCEPT ![Len(stack)] = Tail(@)]
                 ELSE stack
         role == getRoles(<<roleId>>)
     IN /\ todo' = IF inner THEN todo ELSE Tail(todo)
        /\ IF VisitedHas(visited, roleId)
           THEN /\ stack' = rest
                /\ UNCHANGED <<visited, lookups>>
           ELSE /\ visited' = Append(visited, roleId)
                /\ lookups' = [lookups EXCEPT ![roleId] = @ + 1]
                /\ stack' = Append(rest, IF role = <<>> THEN <<>> ELSE role[1].inherits)
  /\ UNCHANGED <<store, user, query, rpc, permissionId, policies, returned>>
  /\ UNCHANGED <<persistent, process, observed, builder, safeAction, spamGuard, countdown>>

\* rbac.tsx:117-118 a collect() call has walked all its inherits and returns.
CanAccess_CollectReturns ==
  /\ rpc = "collect"
  /\ stack # <<>>
  /\ stack[Len(stack)] = <<>>
  /\ stack' = SubSeq(stack, 1, Len(stack) - 1)
  /\ UNCHANGED <<store, user, query, rpc, permissionId, visited, todo, lookups,
                 policies, returned>>
  /\ UNCHANGED <<persistent, process, observed, builder, safeAction, spamGuard, countdown>>

\* rbac.tsx:121-138 the roles are fetched, the policies of the permission are
\* fetched and evaluated, and the call returns.
CanAccess_Decide ==
  /\ rpc = "collect"
  /\ stack = <<>>
  /\ todo = <<>>
  /\ policies' \in PolicyLists(permissionId)
  /\ returned' = PolicyDecision(policies')
  /\ rpc' = "returned"
  /\ UNCHANGED <<store, user, query, permissionId, visited, stack, todo, lookups>>
  /\ UNCHANGED <<persistent, process, observed, builder, safeAction, spamGuard, countdown>>

RbacNext ==
  \/ CanAccess_GetPermissionId
  \/ CanAccess_Collect
  \/ CanAccess_CollectReturns
  \/ CanAccess_Decide

RbacSpec == RbacInit /\ [][RbacNext]_vars

\* Every await of canAccess resolves: the memory store's promises are settled.
RbacLiveSpec == RbacSpec /\ WF_vars(RbacNext)

\* The role ids reachable from a set of ids through `inherits`.
RECURSIVE ReachableFrom(_)
ReachableFrom(ids) ==
  LET more == ids \cup UNION { Range(store.roles[id].inherits) :
                                id \in ids \cap DOMAIN store.roles }
  IN IF more = ids THEN ids ELSE ReachableFrom(more)

\* The ids of the store's permissions for the action and resource asked for.
PermissionIdsAsked ==
  { store.permissions[i].id :
      i \in { j \in DOMAIN store.permissions :
                /\ store.permissions[j].action = query.action
                /\ store.permissions[j].resource = query.resource } }

\* C28: canAccess returns true only if a role reachable from user.roles through
\* `inherits` lists the id of the permission for (action, resource); for a
\* permission the store does not know it returns false, whatever the policies.
C28_TrueOnlyWithRoleGrant ==
  (rpc = "returned" /\ returned = TRUE) =>
    \E id \in ReachableFrom(Range(user)) \cap DOMAIN store.roles :
      Range(store.roles[id].permissions) \cap PermissionIdsAsked # {}

\* C29: canAccess returns for every role graph, and collect fetches no role id
\* more than once.
C29_CollectTerminates ==
  /\ [](\A id \in RoleIds : rpc # "off" => lookups[id] <= 1)
  /\ <>(rpc = "returned")

\* A call has returned after walking a cycle of two roles and a reference to a
\* role that is missing.
C29_Witness ==
  /\ rpc = "returned"
  /\ user = <<"r1">>
  /\ "r2" \in DOMAIN store.roles
  /\ store.roles["r1"].inherits = <<"ghost", "r2">>
  /\ store.roles["r2"].inherits = <<"r1">>
  /\ visited = <<"r1", "ghost", "r2">>
  /\ \A id \in RoleIds : lookups[id] = 1

====
